---- MODULE Spec2Model ----
(***************************************************************************)
(* Model of client.py: SSHClient, a context-manager wrapper around a       *)
(* paramiko connection.  The wrapper's state is self.ssh; everything else  *)
(* below is the transport it delegates to (connections, SFTP sub-channels, *)
(* remote files, execution channels), recorded the way a fake transport    *)
(* would record it, plus the position of the calling code.                 *)
(***************************************************************************)
EXTENDS Integers, Sequences, FiniteSets, TLC

\* ------------------------------------------------------------------ bounds
MaxCalls == 2       \* wrapper calls (operations and close()) made by the caller
MaxCmds == 3        \* longest list handed to exec_commands
MaxEnters == 2      \* scope entries on one instance by an undisciplined caller

\* ------------------------------------------------------------------ inputs
Paths == {"p", "q"}                     \* remote paths
LocalPaths == {"l"}                     \* local paths
Data == {<<"a">>, <<"b">>}              \* contents handed to write / held locally
Cmds == {"c1", "c2"}                    \* command strings (no newline inside)
WriteModes == {"w", "a"}
ReadModes == {"r", "w"}
Callbacks == {"None", "cb"}
Absent == <<"<absent>">>                \* a path with no file

VARIABLES
  caller,     \* "with": code of the shape shown in the class docstring; "any": any call order
  pc,         \* "new" | "body" | "exited" | "enterFailed"
  depth,      \* scopes of this instance entered and not yet exited
  nEnter,     \* __enter__ calls so far
  ssh,        \* self.ssh: 0 is None, else the index in conn of a paramiko client
  conn,       \* every paramiko.SSHClient created: "unconnected" | "open" | "closed"
  nConnect,   \* connect calls the transport saw
  nClose,     \* close calls the transport saw
  lastEvent,  \* the last call the transport saw
  sftpOpen,   \* SFTP sub-channels open
  filesOpen,  \* remote file handles open
  fs,         \* remote files: path -> content, or Absent
  local,      \* local files: path -> content, or Absent
  last,       \* the last wrapper call: arguments, underlying calls, outcome
  prevWrite,  \* the call before last, when it was a successful write: its path, mode, data
  pending,    \* the error unwinding the scoped block, or "none"
  raised,     \* the error the with-statement raised to its caller, or "none"
  calls,      \* wrapper calls made
  explicitCloses  \* close() calls made by the caller's own code

vars == <<caller, pc, depth, nEnter, ssh, conn, nConnect, nClose, lastEvent,
          sftpOpen, filesOpen, fs, local, last, prevWrite, pending, raised, calls,
          explicitCloses>>

\* ------------------------------------------------------------------ helpers
RECURSIVE Count(_, _)
Count(s, S) == IF s = <<>> THEN 0
               ELSE (IF Head(s) \in S THEN 1 ELSE 0) + Count(Tail(s), S)

\* '\n'.join(xs): the elements of xs separated by a newline
RECURSIVE Join(_)
Join(xs) == IF xs = <<>> THEN <<>>
            ELSE IF Len(xs) = 1 THEN <<xs[1]>>
            ELSE <<xs[1], "\n">> \o Join(Tail(xs))

\* The lines a stream of text holds: the pieces between newlines (a text that
\* ends with a newline has no further line after it).
RECURSIVE LinesAcc(_, _)
LinesAcc(text, cur) ==
  IF text = <<>> THEN (IF cur = <<>> THEN <<>> ELSE <<cur>>)
  ELSE IF Head(text) = "\n" THEN <<cur>> \o LinesAcc(Tail(text), <<>>)
  ELSE LinesAcc(Tail(text), Append(cur, Head(text)))
Lines(text) == LinesAcc(text, <<>>)

NoCall == [op |-> "none", args |-> <<>>, data |-> <<>>, events |-> <<>>,
           failed |-> "none", cause |-> "none", raised |-> "none",
           result |-> <<>>, size |-> -1, stdin |-> <<>>,
           reads |-> <<>>, cbInvoked |-> 0, before |-> <<>>,
           under |-> [positional |-> <<>>, keywords |-> {}]]

NoWrite == [path |-> "", mode |-> "", data |-> <<>>, before |-> <<>>]

\* ------------------------------------------------------- the transport side
\* Status of the client self.ssh refers to.
Status(h, cs) == IF h = 0 THEN "none" ELSE cs[h]

\* sftp.file(path, mode): "r" needs the file; "w" creates or truncates; "a" creates.
CanOpen(files, path, mode) == mode = "r" => files[path] # Absent
AfterOpen(files, path, mode) ==
  IF mode = "w" \/ (mode = "a" /\ files[path] = Absent)
  THEN [files EXCEPT ![path] = <<>>] ELSE files
Writable(mode) == mode \in {"w", "a"}
Readable(mode) == mode = "r"
\* fp.write(data) on a handle opened with "w" or "a": the data lands at the end.
AfterWrite(files, path, data) == [files EXCEPT ![path] = @ \o data]

\* The value the transport uses for a keyword parameter: the one passed, else its default.
Keyword(passed, name, default) ==
  IF \E kv \in passed.keywords : kv[1] = name
  THEN (CHOOSE kv \in passed.keywords : kv[1] = name)[2]
  ELSE default
\* A transfer reports progress to the callback it was given, if any.
Progress(passed) == IF Keyword(passed, "callback", "None") = "None" THEN 0 ELSE 1
\* put/putfo: with confirm the attributes come from a stat of the remote file.
Attributes(passed, content) ==
  IF Keyword(passed, "confirm", "True") = "True" THEN Len(content) ELSE -1

\* ssh.exec_command returns its three streams in this order.
ExecStreams == <<"stdin", "stdout", "stderr">>
ReadEvent(stream) == CASE stream = "stdin"  -> "stdin.read"
                       [] stream = "stdout" -> "stdout.read"
                       [] stream = "stderr" -> "stderr.read"
\* What reading a stream to its end yields, for a command fed `input`.
StreamContent(stream, cmd, input) ==
  CASE stream = "stdout" -> <<cmd>> \o input
    [] stream = "stderr" -> (IF cmd = "c2" THEN <<"err">> ELSE <<>>)
    [] stream = "stdin"  -> <<>>
\* The input stream is write-only: reading it fails.
StreamReadable(stream) == stream # "stdin"

\* ------------------------------------------------- scoped acquisition (with)
\* `with self.ssh.open_sftp() as sftp: inner` -- the sub-channel is closed when
\* the block is left, normally or by an error.
\* (variant: the sub-channel is opened without `with` and never closed)
WithSftpLeak(inner) == <<"open_sftp">> \o inner
WithSftp(inner) == <<"open_sftp">> \o inner \o <<"sftp.close">>
\* `with sftp.file(...) as fp: inner` -- likewise for the remote file handle.
WithFile(inner) == <<"sftp.file">> \o inner \o <<"fp.close">>

\* A call that got no further than self.ssh.<attribute> on None.
OnNone(c) == [c EXCEPT !.raised = "AttributeError"]
\* No handler has a try/except: an underlying call is made once, and the error
\* it raises is the error the handler raises.
\* (variant: a failing call is tried a second time)
AttemptTwice(name) == <<name, name>>
Attempt(name) == <<name>>
Propagate(err) == err
\* A call whose underlying call `name` failed with `err` after the calls `before`
\* (`after`: the releases scoped acquisition still makes on the way out).
Failing(c, before, name, after, err) ==
  [c EXCEPT !.events = before \o Attempt(name) \o after, !.failed = name,
            !.cause = err, !.raised = Propagate(err)]
Out(c, files, locals) == [call |-> c, fs |-> files, local |-> locals]

\* ------------------------------------------------------------- the handlers
\* upload(local_path, remote_path, callback, confirm); src.kind says whether
\* local_path is a path or an open file object.
UploadPassed(src, remote_path, callback, confirm) ==
  [positional |-> <<(IF src.kind = "file" THEN "sftp.putfo" ELSE "sftp.put"),
                    src.name, remote_path>>,
   keywords |-> {<<"callback", callback>>, <<"confirm", confirm>>}]

UploadCall(st, src, remote_path, callback, confirm, f, files, locals) ==
  LET passed == UploadPassed(src, remote_path, callback, confirm)
      put == passed.positional[1]
      c == [NoCall EXCEPT !.op = "upload",
                          !.args = <<src.kind, src.name, remote_path, callback, confirm>>]
      content == locals[src.name]
  IN  IF st = "none" THEN Out(OnNone(c), files, locals)
      ELSE IF st # "open" \/ f = "open_sftp"
        THEN Out(Failing(c, <<>>, "open_sftp", <<>>, "SSHException"), files, locals)
      ELSE IF f = "put" \/ content = Absent
        THEN Out(Failing([c EXCEPT !.under = passed], <<"open_sftp">>, put,
                         <<"sftp.close">>, "IOError"), files, locals)
      ELSE Out([c EXCEPT !.under = passed, !.events = WithSftp(<<put>>),
                         !.cbInvoked = Progress(passed),
                         !.size = Attributes(passed, content)],
               [files EXCEPT ![remote_path] = content], locals)

\* write(data, remote_path, mode, bufsize=-1)
\* (variant: the file opened for appending whatever the mode)
WriteCallAppend(st, data, remote_path, mode, f, files, locals) ==
  LET c == [NoCall EXCEPT !.op = "write", !.args = <<remote_path, mode, "-1">>,
                          !.data = data, !.before = files[remote_path]]
      opened == AfterOpen(files, remote_path, "a")
  IN  IF st = "none" THEN Out(OnNone(c), files, locals)
      ELSE IF st # "open" \/ f = "open_sftp"
        THEN Out(Failing(c, <<>>, "open_sftp", <<>>, "SSHException"), files, locals)
      ELSE IF f = "sftp.file" \/ ~CanOpen(files, remote_path, mode)
        THEN Out(Failing(c, <<"open_sftp">>, "sftp.file", <<"sftp.close">>, "IOError"),
                 files, locals)
      ELSE IF f = "fp.write" \/ ~Writable(mode)
        THEN Out(Failing(c, <<"open_sftp", "sftp.file">>, "fp.write",
                         <<"fp.close", "sftp.close">>, "IOError"), opened, locals)
      ELSE Out([c EXCEPT !.events = WithSftp(WithFile(<<"fp.write">>))],
               AfterWrite(opened, remote_path, data), locals)

\* write(data, remote_path, mode, bufsize=-1)
WriteCall(st, data, remote_path, mode, f, files, locals) ==
  LET c == [NoCall EXCEPT !.op = "write", !.args = <<remote_path, mode, "-1">>,
                          !.data = data, !.before = files[remote_path]]
      opened == AfterOpen(files, remote_path, mode)
  IN  IF st = "none" THEN Out(OnNone(c), files, locals)
      ELSE IF st # "open" \/ f = "open_sftp"
        THEN Out(Failing(c, <<>>, "open_sftp", <<>>, "SSHException"), files, locals)
      ELSE IF f = "sftp.file" \/ ~CanOpen(files, remote_path, mode)
        THEN Out(Failing(c, <<"open_sftp">>, "sftp.file", <<"sftp.close">>, "IOError"),
                 files, locals)
      ELSE IF f = "fp.write" \/ ~Writable(mode)
        THEN Out(Failing(c, <<"open_sftp", "sftp.file">>, "fp.write",
                         <<"fp.close", "sftp.close">>, "IOError"), opened, locals)
      ELSE Out([c EXCEPT !.events = WithSftp(WithFile(<<"fp.write">>))],
               AfterWrite(opened, remote_path, data), locals)

\* download(remote_path, local_path, callback, confirm): what sftp.get is handed.
\* (variant: callback and confirm handed on, as upload does)
DownloadPassedThreaded(remote_path, local_path, callback, confirm) ==
  [positional |-> <<"sftp.get", remote_path, local_path>>,
   keywords |-> {<<"callback", callback>>, <<"confirm", confirm>>}]
DownloadPassed(remote_path, local_path, callback, confirm) ==
  [positional |-> <<"sftp.get", remote_path, local_path>>, keywords |-> {}]

DownloadCall(st, remote_path, local_path, callback, confirm, f, files, locals) ==
  LET passed == DownloadPassed(remote_path, local_path, callback, confirm)
      c == [NoCall EXCEPT !.op = "download",
                          !.args = <<remote_path, local_path, callback, confirm>>]
      content == files[remote_path]
  IN  IF st = "none" THEN Out(OnNone(c), files, locals)
      ELSE IF st # "open" \/ f = "open_sftp"
        THEN Out(Failing(c, <<>>, "open_sftp", <<>>, "SSHException"), files, locals)
      ELSE IF f = "get" \/ content = Absent
        THEN Out(Failing([c EXCEPT !.under = passed], <<"open_sftp">>, "sftp.get",
                         <<"sftp.close">>, "IOError"), files, locals)
      ELSE Out([c EXCEPT !.under = passed, !.events = WithSftp(<<"sftp.get">>),
                         !.cbInvoked = Progress(passed),
                         !.result = <<content>>, !.size = Len(content)],
               files, [locals EXCEPT ![local_path] = content])

\* read(remote_path, mode, bufsize=-1)
ReadCall(st, remote_path, mode, f, files, locals) ==
  LET c == [NoCall EXCEPT !.op = "read", !.args = <<remote_path, mode, "-1">>]
      opened == AfterOpen(files, remote_path, mode)
  IN  IF st = "none" THEN Out(OnNone(c), files, locals)
      ELSE IF st # "open" \/ f = "open_sftp"
        THEN Out(Failing(c, <<>>, "open_sftp", <<>>, "SSHException"), files, locals)
      ELSE IF f = "sftp.file" \/ ~CanOpen(files, remote_path, mode)
        THEN Out(Failing(c, <<"open_sftp">>, "sftp.file", <<"sftp.close">>, "IOError"),
                 files, locals)
      ELSE IF f = "fp.read" \/ ~Readable(mode)
        THEN Out(Failing(c, <<"open_sftp", "sftp.file">>, "fp.read",
                         <<"fp.close", "sftp.close">>, "IOError"), opened, locals)
      ELSE Out([c EXCEPT !.events = WithSftp(WithFile(<<"fp.read">>)),
                         !.result = <<opened[remote_path]>>], opened, locals)

\* `_, stdin, stderr = self.ssh.exec_command(command)`: the two streams the
\* handler goes on to read are the second and the third of the three returned.
\* (variant: the stream named stdin taken to be the first one returned)
ExecUnpackByName(streams) == <<streams[1], streams[3]>>
ExecUnpack(streams) == <<streams[2], streams[3]>>

\* Reading the streams `bound` in turn, after the calls `before`, for a channel
\* running cmd fed `input`; f names a read the transport fails.
ReadBoth(c, before, bound, cmd, input, f) ==
  LET r1 == ReadEvent(bound[1])
      r2 == ReadEvent(bound[2])
  IN  IF f = "read1" \/ ~StreamReadable(bound[1])
        THEN [Failing(c, before, r1, <<>>, "IOError") EXCEPT !.reads = <<bound[1]>>]
      ELSE IF f = "read2" \/ ~StreamReadable(bound[2])
        THEN [Failing(c, Append(before, r1), r2, <<>>, "IOError")
                EXCEPT !.reads = <<bound[1], bound[2]>>]
      ELSE [c EXCEPT !.events = before \o <<r1, r2>>,
                     !.reads = <<bound[1], bound[2]>>,
                     !.result = <<StreamContent(bound[1], cmd, input),
                                  StreamContent(bound[2], cmd, input)>>]

\* exec_command(command)
ExecCommandCall(st, command, f, files, locals) ==
  LET c == [NoCall EXCEPT !.op = "exec_command", !.args = <<command>>,
                          !.under = [positional |-> <<"exec_command", command>>,
                                     keywords |-> {}]]
  IN  IF st = "none" THEN Out(OnNone(c), files, locals)
      ELSE IF st # "open" \/ f = "exec_command"
        THEN Out(Failing(c, <<>>, "exec_command", <<>>, "SSHException"), files, locals)
      ELSE Out(ReadBoth(c, <<"exec_command">>, ExecUnpack(ExecStreams),
                        command, <<>>, f), files, locals)

\* The two texts exec_commands writes to the input stream.
\* (variant: the first command written to the input stream as well)
ScriptAll(commands) == Join(commands) \o <<"\n">>
Script(commands) == Join(Tail(commands)) \o <<"\n">>
ExitLine == <<"exit", "\n">>
\* What exec_commands does to the input stream once both texts are written.
FinishInput == <<"stdin.flush">>

\* exec_commands(commands)
ExecCommandsCall(st, commands, f, files, locals) ==
  LET c0 == [NoCall EXCEPT !.op = "exec_commands", !.args = commands]
      c == [c0 EXCEPT !.under = [positional |-> <<"exec_command", commands[1]>>,
                                 keywords |-> {}]]
      w1 == "stdin.write(commands)"
      w2 == "stdin.write(exit)"
      all == Script(commands) \o ExitLine
  IN  IF st = "none" THEN Out(OnNone(c0), files, locals)
      ELSE IF commands = <<>>
        THEN Out([c0 EXCEPT !.raised = "IndexError"], files, locals)
      ELSE IF st # "open" \/ f = "exec_command"
        THEN Out(Failing(c, <<>>, "exec_command", <<>>, "SSHException"), files, locals)
      ELSE IF f = "write1"
        THEN Out(Failing(c, <<"exec_command">>, w1, <<>>, "IOError"), files, locals)
      ELSE IF f = "write2"
        THEN Out([Failing(c, <<"exec_command", w1>>, w2, <<>>, "IOError")
                    EXCEPT !.stdin = Script(commands)], files, locals)
      ELSE IF f = "flush"
        THEN Out([Failing(c, <<"exec_command", w1, w2>>, "stdin.flush", <<>>, "IOError")
                    EXCEPT !.stdin = all], files, locals)
      ELSE Out(ReadBoth([c EXCEPT !.stdin = all],
                        <<"exec_command", w1, w2>> \o FinishInput,
                        SubSeq(ExecStreams, 2, 3), commands[1], all, f), files, locals)

\* close(): self.ssh.close()
CloseCall(st) ==
  LET c == [NoCall EXCEPT !.op = "close"]
  IN  IF st = "none" THEN OnNone(c) ELSE [c EXCEPT !.events = <<"close">>]

\* __exit__ returns nothing, which is falsy: the error that left the block goes on.
ExitReturn == FALSE

\* __exit__(exc_type, exc_val, exc_tb), exc the error leaving the block or "none"
\* (variant: __exit__ without the close)
ExitCallNoClose(st, exc) ==
  [NoCall EXCEPT !.op = "__exit__", !.args = <<exc>>, !.cause = exc, !.raised = exc]
ExitCall(st, exc) ==
  LET k == CloseCall(st)
  IN  [k EXCEPT !.op = "__exit__", !.args = <<exc>>, !.cause = exc,
                !.raised = IF k.raised # "none" THEN k.raised
                           ELSE IF ExitReturn THEN "none" ELSE Propagate(exc)]

\* __enter__: the events up to and including connect
\* (variant: a failing connect caught inside __enter__)
EnterCallSwallow(ok) ==
  [NoCall EXCEPT !.op = "__enter__",
                 !.events = <<"load_system_host_keys", "set_missing_host_key_policy",
                              "connect">>,
                 !.failed = IF ok THEN "none" ELSE "connect",
                 !.cause = IF ok THEN "none" ELSE "AuthenticationException"]
EnterEvents == <<"load_system_host_keys", "set_missing_host_key_policy">>
EnterCall(ok) ==
  LET c == [NoCall EXCEPT !.op = "__enter__"]
  IN  IF ok THEN [c EXCEPT !.events = EnterEvents \o <<"connect">>]
      ELSE Failing(c, EnterEvents, "connect", <<>>, "AuthenticationException")

\* ------------------------------------------------------------------ states
InitCommon ==
  /\ pc = "new" /\ depth = 0 /\ nEnter = 0
  /\ ssh = 0 /\ conn = <<>>
  /\ nConnect = 0 /\ nClose = 0 /\ lastEvent = "none"
  /\ sftpOpen = 0 /\ filesOpen = 0
  /\ fs \in {[x \in Paths |-> IF x = "p" THEN c0 ELSE Absent] : c0 \in {<<"b">>, Absent}}
  /\ local = [x \in LocalPaths |-> <<"a">>]
  /\ last = NoCall /\ prevWrite = NoWrite
  /\ pending = "none" /\ raised = "none" /\ calls = 0 /\ explicitCloses = 0

Init == caller = "with" /\ InitCommon
InitAny == caller = "any" /\ InitCommon

\* ------------------------------------------------------------------ actions
\* The caller may make a wrapper call here.
MayCall == /\ calls < MaxCalls
           /\ pending = "none"
           /\ caller = "with" => pc = "body"

\* Whether the calling code catches an error matters only inside a scope.
Catching(c) == IF c.raised # "none" /\ depth > 0 THEN BOOLEAN ELSE {FALSE}

\* What is remembered of a call once another call has been made after it.
Previous(c) == IF c.op = "write" /\ c.raised = "none"
               THEN [path |-> c.args[1], mode |-> c.args[2], data |-> c.data,
                     before |-> c.before]
               ELSE NoWrite

Opened(c, name) == Count(c.events, {name}) - (IF c.failed = name THEN 1 ELSE 0)

\* The effect of a finished handler on the state; `caught` says whether the
\* calling code catches the error the handler raised, if it raised one.
Finish(out) ==
  LET c == out.call IN
  /\ last' = c
  /\ fs' = out.fs
  /\ local' = out.local
  /\ sftpOpen' = sftpOpen + Opened(c, "open_sftp") - Count(c.events, {"sftp.close"})
  /\ filesOpen' = filesOpen + Opened(c, "sftp.file") - Count(c.events, {"fp.close"})
  /\ lastEvent' = IF c.events = <<>> THEN lastEvent ELSE c.events[Len(c.events)]
  /\ \E caught \in Catching(c) :
       pending' = IF c.raised # "none" /\ depth > 0 /\ ~caught THEN c.raised ELSE pending
  /\ prevWrite' = Previous(last)
  /\ calls' = calls + 1
  /\ UNCHANGED <<caller, pc, depth, nEnter, ssh, conn, nConnect, nClose, raised,
                 explicitCloses>>

Upload ==
  /\ MayCall
  /\ \E src \in [kind : {"path", "file"}, name : LocalPaths], rp \in Paths,
        cb \in Callbacks, confirm \in {"True", "False"},
        f \in {"none", "open_sftp", "put"} :
       /\ src.kind = "file" => local[src.name] # Absent
       /\ Finish(UploadCall(Status(ssh, conn), src, rp, cb, confirm, f, fs, local))

Write ==
  /\ MayCall
  /\ \E data \in Data, rp \in Paths, mode \in WriteModes,
        f \in {"none", "open_sftp", "sftp.file", "fp.write"} :
       Finish(WriteCall(Status(ssh, conn), data, rp, mode, f, fs, local))

Download ==
  /\ MayCall
  /\ \E rp \in Paths, lp \in LocalPaths, cb \in Callbacks, confirm \in {"True", "False"},
        f \in {"none", "open_sftp", "get"} :
       Finish(DownloadCall(Status(ssh, conn), rp, lp, cb, confirm, f, fs, local))

Read ==
  /\ MayCall
  /\ \E rp \in Paths, mode \in ReadModes,
        f \in {"none", "open_sftp", "sftp.file", "fp.read"} :
       Finish(ReadCall(Status(ssh, conn), rp, mode, f, fs, local))

ExecCommand ==
  /\ MayCall
  /\ \E cmd \in Cmds, f \in {"none", "exec_command", "read1", "read2"} :
       Finish(ExecCommandCall(Status(ssh, conn), cmd, f, fs, local))

CommandLists == UNION {[1..n -> Cmds] : n \in 0..MaxCmds}

ExecCommands ==
  /\ MayCall
  /\ \E cmds \in CommandLists,
        f \in {"none", "exec_command", "write1", "write2", "flush", "read1", "read2"} :
       Finish(ExecCommandsCall(Status(ssh, conn), cmds, f, fs, local))

\* close() called by the caller's own code
Close ==
  /\ MayCall
  /\ LET c == CloseCall(Status(ssh, conn)) IN
     \E caught \in Catching(c) :
       /\ last' = c
       /\ conn' = IF c.events = <<>> THEN conn ELSE [conn EXCEPT ![ssh] = "closed"]
       /\ nClose' = nClose + Count(c.events, {"close"})
       /\ lastEvent' = IF c.events = <<>> THEN lastEvent ELSE c.events[Len(c.events)]
       /\ pending' = IF c.raised # "none" /\ depth > 0 /\ ~caught THEN c.raised ELSE pending
       /\ prevWrite' = Previous(last)
       /\ calls' = calls + 1
       /\ explicitCloses' = explicitCloses + 1
       /\ UNCHANGED <<caller, pc, depth, nEnter, ssh, nConnect, sftpOpen, filesOpen,
                      fs, local, raised>>

\* `with client as ssh:` reaches __enter__
Enter ==
  /\ pending = "none"
  /\ nEnter < MaxEnters
  /\ caller = "with" => pc = "new"
  /\ \E ok \in BOOLEAN :
       LET c == EnterCall(ok) IN
       \E caught \in Catching(c) :
       /\ last' = c
       /\ nEnter' = nEnter + 1
       /\ ssh' = Len(conn) + 1
       /\ conn' = Append(conn, IF ok THEN "open" ELSE "unconnected")
       /\ nConnect' = nConnect + Count(c.events, {"connect"})
       /\ lastEvent' = c.events[Len(c.events)]
       /\ depth' = IF c.raised = "none" THEN depth + 1 ELSE depth
       /\ pc' = IF c.raised = "none" THEN "body"
                ELSE IF depth = 0 THEN "enterFailed" ELSE pc
       /\ pending' = IF c.raised # "none" /\ depth > 0 /\ ~caught THEN c.raised ELSE pending
       /\ raised' = IF c.raised # "none" /\ depth = 0 THEN c.raised ELSE raised
       /\ prevWrite' = Previous(last)
       /\ UNCHANGED <<caller, nClose, sftpOpen, filesOpen, fs, local, calls,
                      explicitCloses>>

\* The caller's own code inside the block raises.
BlockRaises ==
  /\ depth > 0
  /\ pending = "none"
  /\ pending' = "UserError"
  /\ UNCHANGED <<caller, pc, depth, nEnter, ssh, conn, nConnect, nClose, lastEvent,
                 sftpOpen, filesOpen, fs, local, last, prevWrite, raised, calls,
                 explicitCloses>>

\* The block is left, normally or by the error `pending`: __exit__ runs.
Exit ==
  /\ depth > 0
  /\ LET c == ExitCall(Status(ssh, conn), pending) IN
     /\ last' = c
     /\ conn' = IF c.events = <<>> THEN conn ELSE [conn EXCEPT ![ssh] = "closed"]
     /\ nClose' = nClose + Count(c.events, {"close"})
     /\ lastEvent' = IF c.events = <<>> THEN lastEvent ELSE c.events[Len(c.events)]
     /\ depth' = depth - 1
     /\ pc' = IF depth = 1 THEN "exited" ELSE pc
     /\ pending' = IF depth = 1 THEN "none" ELSE c.raised
     /\ raised' = IF depth = 1 THEN c.raised ELSE raised
     /\ prevWrite' = Previous(last)
     /\ UNCHANGED <<caller, nEnter, ssh, nConnect, sftpOpen, filesOpen, fs, local, calls,
                    explicitCloses>>

Next == \/ Enter \/ Upload \/ Write \/ Download \/ Read
        \/ ExecCommand \/ ExecCommands \/ Close \/ BlockRaises \/ Exit

\* A caller that uses the client as its docstring shows: one with-statement.
Spec == Init /\ [][Next]_vars
\* A caller that calls anything at any time.
SpecAny == InitAny /\ [][Next]_vars

\* ------------------------------------------------------------------ properties
TransferOps == {"upload", "write", "download", "read"}
SessionOps == TransferOps \cup {"exec_command", "exec_commands"}
OpenConns == {i \in DOMAIN conn : conn[i] = "open"}
IsPrefix(a, b) == Len(a) <= Len(b) /\ SubSeq(b, 1, Len(a)) = a
\* End-of-input on the channel's input stream: closing it or shutting down writes.
EndOfInputSignalled(c) ==
  \E i \in DOMAIN c.events : c.events[i] \in {"stdin.close", "shutdown_write"}
\* The lines a list of commands makes, one command per line.
AsLines(commands) == [i \in DOMAIN commands |-> <<commands[i]>>]

\* C1 (as stated): once the single scope has been left, the transport has seen
\* exactly one connect and exactly one close, and the close was its last event.
C1_OneOpenOneClose ==
  pc = "exited" => nConnect = 1 /\ nClose = 1 /\ lastEvent = "close"

\* C1 (amended): once the single scope has been left, the transport has seen
\* exactly one connect, and one close for scope exit on top of one close per
\* explicit close() call made in the block (so exactly one when the block made
\* none); the close of scope exit is the last transport event and the connection
\* is closed, whether the block finished normally or raised.  Inside the block
\* the only closes are the explicit ones.
C1_OneOpenExitCloses ==
  /\ pc = "exited" => /\ nConnect = 1
                      /\ nClose = explicitCloses + 1
                      /\ lastEvent = "close"
                      /\ last.op = "__exit__" /\ last.events = <<"close">>
                      /\ OpenConns = {}
  /\ pc = "body" => nConnect = 1 /\ nClose = explicitCloses

\* C1 witness: the block raised after an explicit close(), and the scope was left.
C1_Witness ==
  pc = "exited" /\ raised = "UserError" /\ explicitCloses = 1 /\ nClose = 2

\* C2 (as stated): a session operation called while no scope is entered ends in a
\* UsageError raised by the wrapper, without any call reaching the connection.
C2_UsageErrorOutsideScope ==
  (last.op \in SessionOps /\ depth = 0)
    => last.raised = "UsageError" /\ last.events = <<>>

\* C3: when connect fails during scope entry the error reaches the caller, the
\* block is never run, no connection is open and no close is issued.
C3_FailedEnterLeavesNothing ==
  (last.op = "__enter__" /\ last.failed = "connect")
    => /\ pc = "enterFailed"
       /\ raised = "AuthenticationException"
       /\ depth = 0 /\ calls = 0 /\ pending = "none"
       /\ OpenConns = {} /\ Status(ssh, conn) = "unconnected"
       /\ nClose = 0 /\ nConnect = 1

\* C3 witness: a scope entry whose connect failed.
C3_Witness ==
  pc = "enterFailed" /\ last.failed = "connect" /\ raised = "AuthenticationException"

\* C4: no SFTP sub-channel and no remote file handle is open between calls; a
\* transfer call asks for exactly one sub-channel, first thing, closes it last
\* thing if it got it, and closes the one file handle it may have opened.
C4_SubChannelsScoped ==
  /\ sftpOpen = 0 /\ filesOpen = 0
  /\ last.op \in TransferOps =>
       /\ Count(last.events, {"open_sftp"}) = 1
       /\ last.events[1] = "open_sftp"
       /\ Count(last.events, {"sftp.close"}) = Opened(last, "open_sftp")
       /\ Opened(last, "open_sftp") = 1 => last.events[Len(last.events)] = "sftp.close"
       /\ Count(last.events, {"sftp.file"}) <= 1
       /\ Count(last.events, {"fp.close"}) = Opened(last, "sftp.file")

\* C4 witness: a second transfer call that failed while its remote file was open.
C4_Witness ==
  /\ last.op = "write" /\ last.failed = "fp.write" /\ calls = 2
  /\ Count(last.events, {"sftp.close"}) = 1 /\ Count(last.events, {"fp.close"}) = 1

\* The underlying calls of a complete exec_commands, in order.
ExecCommandsOrder ==
  <<"exec_command", "stdin.write(commands)", "stdin.write(exit)", "stdin.flush",
    "stdout.read", "stderr.read">>

\* C5 (as stated): a completed exec_commands opened one channel with commands[0],
\* wrote commands[1:] one per line in order, then a line "exit", then signalled
\* end-of-input, and only then read stdout and stderr.
C5_ScriptThenEndOfInput ==
  (last.op = "exec_commands" /\ last.raised = "none")
    => /\ Count(last.events, {"exec_command"}) = 1
       /\ last.under.positional = <<"exec_command", last.args[1]>>
       /\ Lines(last.stdin) = AsLines(Tail(last.args)) \o <<<<"exit">>>>
       /\ EndOfInputSignalled(last)
       /\ last.reads = <<"stdout", "stderr">>

\* C5 (amended): for a non-empty list, exec_commands opens one channel with
\* commands[0]; its underlying calls are, in this order and each once, the two
\* writes, a flush of the input stream, the read of stdout, the read of stderr
\* (a failing call ends the sequence); the text written is commands[1:] joined
\* by newlines plus a newline -- one command per line in the original order, a
\* single empty line when there is none -- followed by the line "exit"; end of
\* input is never signalled; the pair returned is (stdout, stderr).
C5_ScriptThenFlush ==
  (last.op = "exec_commands" /\ last.events # <<>>)
    => /\ last.under.positional = <<"exec_command", last.args[1]>>
       /\ IsPrefix(last.events, ExecCommandsOrder)
       /\ ~EndOfInputSignalled(last)
       /\ last.raised = "none" =>
            /\ last.events = ExecCommandsOrder
            /\ Lines(last.stdin) =
                 (IF Len(last.args) = 1 THEN <<<<>>>> ELSE AsLines(Tail(last.args)))
                   \o <<<<"exit">>>>
            /\ last.stdin[Len(last.stdin)] = "\n"
            /\ last.reads = <<"stdout", "stderr">>
            /\ last.result = <<StreamContent("stdout", last.args[1], last.stdin),
                               StreamContent("stderr", last.args[1], last.stdin)>>

\* C5 witness: a completed exec_commands with two different commands after the first.
C5_Witness ==
  /\ last.op = "exec_commands" /\ last.raised = "none"
  /\ Len(last.args) = 3 /\ last.args[2] # last.args[3]

\* C6: exec_command writes nothing to the input stream and never reads it; when
\* it returns, the pair is the whole of stdout, then the whole of stderr.
C6_ExecCommandReturnsOutErr ==
  last.op = "exec_command"
    => /\ last.stdin = <<>>
       /\ Count(last.events, {"stdin.write(commands)", "stdin.write(exit)",
                              "stdin.flush", "stdin.read"}) = 0
       /\ IsPrefix(last.events, <<"exec_command", "stdout.read", "stderr.read">>)
       /\ last.raised = "none" =>
            /\ last.reads = <<"stdout", "stderr">>
            /\ last.result = <<StreamContent("stdout", last.args[1], <<>>),
                               StreamContent("stderr", last.args[1], <<>>)>>

\* C6 witness: an exec_command that returned output on both streams.
C6_Witness ==
  /\ last.op = "exec_command" /\ last.raised = "none"
  /\ last.result[1] # <<>> /\ last.result[2] # <<>>

\* C7: a read(path) with the default mode that directly follows a successful
\* write(data, path) with the default mode returns exactly data.
C7_WriteThenRead ==
  (/\ last.op = "read" /\ last.raised = "none" /\ last.args[2] = "r"
   /\ prevWrite # NoWrite /\ prevWrite.mode = "w" /\ prevWrite.path = last.args[1])
    => last.result = <<prevWrite.data>>

\* C7 witness: such a round trip on a path that held other content before the write.
C7_Witness ==
  /\ last.op = "read" /\ last.raised = "none" /\ last.args[2] = "r"
  /\ prevWrite # NoWrite /\ prevWrite.mode = "w" /\ prevWrite.path = last.args[1]
  /\ prevWrite.before \notin {Absent, <<>>, prevWrite.data}

\* C8: an underlying call that failed was made once and its error is the error
\* the wrapper call raised; the error that left the block is the error __exit__
\* lets through, and the one the with-statement raises once the scope is left.
C8_NothingCaughtOrRetried ==
  /\ last.failed # "none" =>
       /\ Count(last.events, {last.failed}) = 1
       /\ last.raised = last.cause
  /\ last.op = "__exit__" => last.raised = last.cause /\ last.events = <<"close">>
  /\ (last.op = "__exit__" /\ depth = 0) => raised = last.cause

\* C8 witness: a transfer failed in the block, and after the close of scope exit
\* the with-statement raised that error.
C8_Witness ==
  /\ pc = "exited" /\ last.op = "__exit__" /\ raised = "IOError"
  /\ lastEvent = "close"

C10_AtMostOneConnection ==
  /\ Cardinality(OpenConns) <= 1
  /\ depth = 0 => OpenConns = {}
====
